---------------------------- MODULE Spec2Model ----------------------------
(***************************************************************************)
(* Model of backend/app/stream.py: ConverseApiStreamHandler, the adapter   *)
(* that opens one converse_stream call, relays text deltas to on_stream    *)
(* and, on the metadata event, hands an OnStopInput summary to on_stop.    *)
(*                                                                         *)
(* run() is a Python generator: calling it only creates the generator;     *)
(* its body executes while the caller pulls (next()).  Each generator is   *)
(* a process with a position pc[r]; one action per step of its body.       *)
(* Strings that the code inspects character by character (the delta texts, *)
(* the joined text) are sequences of one-character strings.                *)
(***************************************************************************)
EXTENDS Integers, Sequences, FiniteSets, TLC

(* ------------------------------ bounds -------------------------------- *)

\* Longest event stream a backend response delivers.
MaxEvents == 3

\* Most bind() calls made on the adapter.
MaxBinds == 2

(* --------------------------- value universes -------------------------- *)

\* run() invocations on the one adapter; Spec drives the first of them.
Runs == {1, 2}
SingleRun == {1}

\* type_model_name values given to the constructor.
Models == {"claude-v3-haiku", "claude-v3-opus"}

\* Caller-supplied callbacks bound at construction.
OnStreamA == "on_stream_A"
OnStopA == "on_stop_A"

\* Further caller-supplied callbacks, for bind().
OnStreamB == "on_stream_B"
OnStopB == "on_stop_B"

\* The callback pairs a caller passes to bind().
BindPairs == { [on_stream |-> OnStreamA, on_stop |-> OnStopA],
               [on_stream |-> OnStreamB, on_stop |-> OnStopB] }

\* Delta texts the backend sends, as character sequences:
\* " t\n" (leading and trailing whitespace) and " ".
Texts == { <<" ", "t", "\n">>, <<" ">> }

StopReasons == {"end_turn", "max_tokens"}

Usages == { [inputTokens |-> 5, outputTokens |-> 2],
            [inputTokens |-> 0, outputTokens |-> 7] }

\* Exceptions client.converse_stream can raise when the call is initiated.
InitErrors == {"EndpointConnectionError", "AccessDeniedException"}

\* Exception the event stream raises while delivering an event.
StreamError == "ModelStreamErrorException"

NoError == "none"

(* ------------------------------ requests ------------------------------ *)

\* ConverseApiRequest: a dict with five required keys and the optional key
\* guardrailConfig.  A dict is a function on its set of keys.
RequiredKeys == {"model_id", "messages", "inference_config", "system",
                 "additional_model_request_fields"}

BaseRequest(mid, msgs) ==
    [k \in RequiredKeys |->
        CASE k = "model_id" -> <<mid>>
          [] k = "messages" -> msgs
          [] k = "inference_config" -> <<"maxTokens=512">>
          [] k = "system" -> <<"be brief">>
          [] k = "additional_model_request_fields" -> <<"top_k=250">>]

WithGuardrail(req, g) ==
    [k \in DOMAIN req \cup {"guardrailConfig"} |->
        IF k = "guardrailConfig" THEN g ELSE req[k]]

\* Requests without a guardrail, with one, and with the key set to None
\* (the empty value).
Requests ==
    { BaseRequest("anthropic.haiku", <<"hello">>),
      WithGuardrail(BaseRequest("anthropic.opus", <<"hello", "again">>),
                    <<"guardrail-1">>),
      WithGuardrail(BaseRequest("anthropic.haiku", <<"hello", "again">>), <<>>) }

(* ------------------------------- events ------------------------------- *)

\* A stream event is a dict; its variant is told by the key it carries.
ContentDelta(t) == [k \in {"contentBlockDelta"} |-> [text |-> t]]
MessageStop(s) == [k \in {"messageStop"} |-> [stopReason |-> s]]
Metadata(u) == [k \in {"metadata"} |-> [usage |-> u]]

\* An event that carries none of the three keys (e.g. messageStart).
OtherEvent == [k \in {"messageStart"} |-> [role |-> "assistant"]]

\* An event that carries all three keys at once.
MixedEvent ==
    [k \in {"contentBlockDelta", "messageStop", "metadata"} |->
        CASE k = "contentBlockDelta" -> [text |-> <<"H", "i">>]
          [] k = "messageStop" -> [stopReason |-> "max_tokens"]
          [] k = "metadata" -> [usage |-> [inputTokens |-> 0, outputTokens |-> 7]]]

\* An event that carries the messageStop and the metadata key.
StopWithUsage ==
    [k \in {"messageStop", "metadata"} |->
        IF k = "messageStop" THEN [stopReason |-> "end_turn"]
        ELSE [usage |-> [inputTokens |-> 5, outputTokens |-> 2]]]

Events ==
    { ContentDelta(t) : t \in Texts } \cup { MessageStop(s) : s \in StopReasons }
    \cup { Metadata(u) : u \in Usages }
    \cup { OtherEvent, MixedEvent, StopWithUsage }

Streams == UNION { [1..n -> Events] : n \in 0..MaxEvents }

\* A few streams, for the specifications with rebinding or with two runs:
\* empty, well formed, without MessageStop, with a delta after the
\* Metadata, a lone delta, and one of events outside the tagged union.
SampleStreams ==
    { <<>>,
      << ContentDelta(<<" ", "t", "\n">>), MessageStop("end_turn"),
         Metadata([inputTokens |-> 5, outputTokens |-> 2]) >>,
      << ContentDelta(<<" ">>), ContentDelta(<<" ", "t", "\n">>),
         Metadata([inputTokens |-> 0, outputTokens |-> 7]) >>,
      << Metadata([inputTokens |-> 5, outputTokens |-> 2]),
         ContentDelta(<<" ">>) >>,
      << ContentDelta(<<" ", "t", "\n">>) >>,
      << MixedEvent, StopWithUsage, OtherEvent >> }


(* --------------------------- pure functions --------------------------- *)

\* "".join(completions)
RECURSIVE Join(_)
Join(parts) ==
    IF parts = <<>> THEN <<>> ELSE Head(parts) \o Join(Tail(parts))

\* Characters str.rstrip() removes when called without arguments (the
\* whitespace characters that can be written here).
Whitespace == {" ", "\t", "\n", "\r", "\f"}

\* str.rstrip(): drop trailing whitespace, keep everything before it.
RECURSIVE Rstrip(_)
Rstrip(s) ==
    IF s # <<>> /\ s[Len(s)] \in Whitespace
    THEN Rstrip(SubSeq(s, 1, Len(s) - 1))
    ELSE s

\* app.bedrock.calculate_price(model, input_tokens, output_tokens): a pure
\* function of exactly these three arguments (per-model token rates).
calculate_price(m, inTok, outTok) ==
    CASE m = "claude-v3-haiku" -> inTok * 25 + outTok * 125
      [] m = "claude-v3-opus" -> inTok * 1500 + outTok * 7500
      [] OTHER -> inTok * 300 + outTok * 1500

\* Mutation of BaseArgs: guardrailConfig is always passed, as None when the
\* request has none.
BaseArgsAlwaysGuardrail(a) ==
    [k \in {"modelId", "messages", "inferenceConfig", "system",
            "additionalModelRequestFields", "guardrailConfig"} |->
        CASE k = "modelId" -> a["model_id"]
          [] k = "messages" -> a["messages"]
          [] k = "inferenceConfig" -> a["inference_config"]
          [] k = "system" -> a["system"]
          [] k = "additionalModelRequestFields" ->
                 a["additional_model_request_fields"]
          [] k = "guardrailConfig" ->
                 IF "guardrailConfig" \in DOMAIN a
                 THEN a["guardrailConfig"] ELSE <<>>]

\* The keyword arguments of client.converse_stream(**base_args).
BaseArgs(a) ==
    LET base == [k \in {"modelId", "messages", "inferenceConfig", "system",
                        "additionalModelRequestFields"} |->
                    CASE k = "modelId" -> a["model_id"]
                      [] k = "messages" -> a["messages"]
                      [] k = "inferenceConfig" -> a["inference_config"]
                      [] k = "system" -> a["system"]
                      [] k = "additionalModelRequestFields" ->
                             a["additional_model_request_fields"]]
    IN  IF "guardrailConfig" \in DOMAIN a
        THEN [k \in DOMAIN base \cup {"guardrailConfig"} |->
                 IF k = "guardrailConfig" THEN a["guardrailConfig"] ELSE base[k]]
        ELSE base

\* The branch of the if/elif chain an event takes.
\* Mutation of Branch: the metadata test comes before the messageStop test.
BranchMetadataSecond(e) ==
    IF "contentBlockDelta" \in DOMAIN e THEN "contentBlockDelta"
    ELSE IF "metadata" \in DOMAIN e THEN "metadata"
    ELSE IF "messageStop" \in DOMAIN e THEN "messageStop"
    ELSE "none"

Branch(e) ==
    IF "contentBlockDelta" \in DOMAIN e THEN "contentBlockDelta"
    ELSE IF "messageStop" \in DOMAIN e THEN "messageStop"
    ELSE IF "metadata" \in DOMAIN e THEN "metadata"
    ELSE "none"

\* Mutation of FullToken: the join without the rstrip().
FullTokenUntrimmed(parts) == Join(parts)

\* full_token= of the OnStopInput.
FullToken(parts) == Rstrip(Join(parts))

\* Mutation of OnStopInput: the two token counts are taken from each
\* other's usage field.
OnStopInputSwapped(m, parts, reason, e) ==
    LET usage == e["metadata"].usage
        input_token_count == usage.outputTokens
        output_token_count == usage.inputTokens
    IN  [full_token |-> FullToken(parts),
         stop_reason |-> reason,
         input_token_count |-> input_token_count,
         output_token_count |-> output_token_count,
         price |-> calculate_price(m, input_token_count, output_token_count)]

\* The OnStopInput built in the metadata branch.
OnStopInput(m, parts, reason, e) ==
    LET usage == e["metadata"].usage
        input_token_count == usage.inputTokens
        output_token_count == usage.outputTokens
    IN  [full_token |-> FullToken(parts),
         stop_reason |-> reason,
         input_token_count |-> input_token_count,
         output_token_count |-> output_token_count,
         price |-> calculate_price(m, input_token_count, output_token_count)]

\* What a bound callback returns; the no-op lambdas return None.
OnStreamReturn(fn, text) ==
    IF fn = "noop" THEN [by |-> "noop"] ELSE [by |-> fn, text |-> text]

OnStopReturn(fn, summary) ==
    IF fn = "noop" THEN [by |-> "noop"] ELSE [by |-> fn, summary |-> summary]

(* -------------------------------- state ------------------------------- *)

VARIABLES
    model,          \* self.model
    on_stream,      \* self.on_stream
    on_stop,        \* self.on_stop
    pc,             \* position of each generator
    args,           \* the request each run() was given
    stream,         \* events of response["stream"], per run
    streamErr,      \* error the stream raises after its last event, or NoError
    pos,            \* number of events the for loop has taken
    completions,    \* local list `completions`
    stop_reason,    \* local `stop_reason`
    clientCalls,    \* converse_stream calls the backend client has received
    backendRaised,  \* exception the backend raised to each run, or NoError
    cbLog,          \* callback invocations, in order; `at` is the index of
                    \* the event of the run's stream that caused the call
    yielded,        \* values each generator has handed to its caller
    raised,         \* exception each generator has raised to its caller
    pulls,          \* next() calls made on each generator
    bindLog,        \* the bind() calls made on the adapter, in order
    bindReturn,     \* what the last bind() call returned
    startEpoch      \* number of bind() calls made before each run() call

vars == <<model, on_stream, on_stop, pc, args, stream, streamErr, pos,
          completions, stop_reason, clientCalls, backendRaised, cbLog,
          yielded, raised, pulls, bindLog, bindReturn, startEpoch>>

adapterVars == <<model, on_stream, on_stop>>
bindVars == <<bindLog, bindReturn>>
localVars == <<stream, streamErr, pos, completions, stop_reason>>

\* A generator is executing between a pull and its next yield / end.
Executing(r) == pc[r] \in {"start", "loop"}
Finished(r) == pc[r] \in {"done", "raised"}

\* No run() and no bind() call has been made on the adapter yet.
NoCallYet ==
    /\ pc = [r \in Runs |-> "idle"]
    /\ args = [r \in Runs |-> <<>>]
    /\ stream = [r \in Runs |-> <<>>]
    /\ streamErr = [r \in Runs |-> NoError]
    /\ pos = [r \in Runs |-> 0]
    /\ completions = [r \in Runs |-> <<>>]
    /\ stop_reason = [r \in Runs |-> ""]
    /\ clientCalls = <<>>
    /\ backendRaised = [r \in Runs |-> NoError]
    /\ cbLog = <<>>
    /\ yielded = [r \in Runs |-> <<>>]
    /\ raised = [r \in Runs |-> NoError]
    /\ pulls = [r \in Runs |-> 0]
    /\ bindLog = <<>>
    /\ bindReturn = "none"
    /\ startEpoch = [r \in Runs |-> 0]

\* ConverseApiStreamHandler(model, on_stream, on_stop); no run() made yet.
Init ==
    /\ model \in Models
    /\ on_stream = OnStreamA
    /\ on_stop = OnStopA
    /\ NoCallYet

(* ------------------------------- actions ------------------------------ *)

\* handler.run(a): creates the generator; no line of the body runs yet.
Run(r) ==
    /\ pc[r] = "idle"
    /\ \A q \in Runs : ~Executing(q)
    /\ pc' = [pc EXCEPT ![r] = "created"]
    /\ \E a \in Requests : args' = [args EXCEPT ![r] = a]
    /\ startEpoch' = [startEpoch EXCEPT ![r] = Len(bindLog)]
    /\ UNCHANGED <<adapterVars, bindVars, localVars, clientCalls, backendRaised, cbLog,
                   yielded, raised, pulls>>

\* next(generator): the body starts, or resumes after the yield it stopped at.
Pull(r) ==
    /\ pc[r] \in {"created", "suspended"}
    /\ \A q \in Runs : ~Executing(q)
    /\ pc' = [pc EXCEPT ![r] = IF pc[r] = "created" THEN "start" ELSE "loop"]
    /\ pulls' = [pulls EXCEPT ![r] = @ + 1]
    /\ UNCHANGED <<adapterVars, bindVars, startEpoch, args, localVars, clientCalls, backendRaised,
                   cbLog, yielded, raised>>

\* Mutation of Reraise: the caught exception is replaced by a generic one.
ReraiseWrapped(e) == "RuntimeError"

\* What the except clause raises for the exception e it caught: `raise e`.
Reraise(e) == e

\* converse_stream raises an exception e: logged, then reraised.
CallFails(r) ==
    /\ pc[r] = "start"
    /\ clientCalls' = Append(clientCalls, [run |-> r, kwargs |-> BaseArgs(args[r])])
    /\ \E e \in InitErrors :
           /\ backendRaised' = [backendRaised EXCEPT ![r] = e]
           /\ raised' = [raised EXCEPT ![r] = Reraise(e)]
    /\ pc' = [pc EXCEPT ![r] = "raised"]
    /\ UNCHANGED <<adapterVars, bindVars, startEpoch, args, localVars, cbLog, yielded, pulls>>

\* Mutation of CallReturns: the call is issued a second time (a retry)
\* before its response is used.
CallReturnsRetries(r) ==
    /\ pc[r] = "start"
    /\ clientCalls' = clientCalls \o
                          << [run |-> r, kwargs |-> BaseArgs(args[r])],
                             [run |-> r, kwargs |-> BaseArgs(args[r])] >>
    /\ \E s \in Streams : stream' = [stream EXCEPT ![r] = s]
    /\ \E err \in {NoError, StreamError} :
           streamErr' = [streamErr EXCEPT ![r] = err]
    /\ pos' = [pos EXCEPT ![r] = 0]
    /\ completions' = [completions EXCEPT ![r] = <<>>]
    /\ stop_reason' = [stop_reason EXCEPT ![r] = ""]
    /\ pc' = [pc EXCEPT ![r] = "loop"]
    /\ UNCHANGED <<adapterVars, bindVars, startEpoch, args, backendRaised, cbLog, yielded, raised, pulls>>

\* converse_stream returns a response whose stream delivers some events and
\* then ends (NoError) or raises StreamError; the locals are initialised.
CallReturnsFrom(r, S) ==
    /\ pc[r] = "start"
    /\ clientCalls' = Append(clientCalls, [run |-> r, kwargs |-> BaseArgs(args[r])])
    /\ \E s \in S : stream' = [stream EXCEPT ![r] = s]
    /\ \E err \in {NoError, StreamError} :
           streamErr' = [streamErr EXCEPT ![r] = err]
    /\ pos' = [pos EXCEPT ![r] = 0]
    /\ completions' = [completions EXCEPT ![r] = <<>>]
    /\ stop_reason' = [stop_reason EXCEPT ![r] = ""]
    /\ pc' = [pc EXCEPT ![r] = "loop"]
    /\ UNCHANGED <<adapterVars, bindVars, startEpoch, args, backendRaised, cbLog, yielded, raised, pulls>>

\* The same, the response's stream being any stream up to MaxEvents events.
CallReturns(r) == CallReturnsFrom(r, Streams)

\* The event the for loop takes next.
HasEvent(r) == pc[r] = "loop" /\ pos[r] < Len(stream[r])
NextEvent(r) == stream[r][pos[r] + 1]

\* Mutation of OnContentDelta: the accumulator is one list kept on the
\* adapter, shared by all its runs.
OnContentDeltaShared(r) ==
    /\ HasEvent(r)
    /\ Branch(NextEvent(r)) = "contentBlockDelta"
    /\ LET text == NextEvent(r)["contentBlockDelta"].text
       IN  /\ completions' = [q \in Runs |-> Append(completions[q], text)]
           /\ cbLog' = Append(cbLog, [run |-> r, at |-> pos[r] + 1,
                                      cb |-> "on_stream", fn |-> on_stream,
                                      text |-> text])
           /\ yielded' = [yielded EXCEPT ![r] =
                              Append(@, OnStreamReturn(on_stream, text))]
    /\ pos' = [pos EXCEPT ![r] = @ + 1]
    /\ pc' = [pc EXCEPT ![r] = "suspended"]
    /\ UNCHANGED <<adapterVars, bindVars, startEpoch, args, stream, streamErr,
                   stop_reason, clientCalls, backendRaised, raised, pulls>>

\* Mutation of OnContentDelta: on_stream receives the right-trimmed text.
OnContentDeltaTrimmed(r) ==
    /\ HasEvent(r)
    /\ Branch(NextEvent(r)) = "contentBlockDelta"
    /\ LET text == NextEvent(r)["contentBlockDelta"].text
       IN  /\ completions' = [completions EXCEPT ![r] = Append(@, text)]
           /\ cbLog' = Append(cbLog, [run |-> r, at |-> pos[r] + 1,
                                      cb |-> "on_stream", fn |-> on_stream,
                                      text |-> Rstrip(text)])
           /\ yielded' = [yielded EXCEPT ![r] =
                              Append(@, OnStreamReturn(on_stream, Rstrip(text)))]
    /\ pos' = [pos EXCEPT ![r] = @ + 1]
    /\ pc' = [pc EXCEPT ![r] = "suspended"]
    /\ UNCHANGED <<adapterVars, bindVars, startEpoch, args, stream, streamErr, stop_reason,
                   clientCalls, backendRaised, raised, pulls>>

\* if "contentBlockDelta" in event: append, on_stream(text), yield.
\* Mutation of OnContentDelta: the callback's result is collected but the
\* generator does not suspend; it goes on to the next event.
OnContentDeltaKeepsRunning(r) ==
    /\ HasEvent(r)
    /\ Branch(NextEvent(r)) = "contentBlockDelta"
    /\ LET text == NextEvent(r)["contentBlockDelta"].text
       IN  /\ completions' = [completions EXCEPT ![r] = Append(@, text)]
           /\ cbLog' = Append(cbLog, [run |-> r, at |-> pos[r] + 1,
                                      cb |-> "on_stream", fn |-> on_stream,
                                      text |-> text])
           /\ yielded' = [yielded EXCEPT ![r] =
                              Append(@, OnStreamReturn(on_stream, text))]
    /\ pos' = [pos EXCEPT ![r] = @ + 1]
    /\ UNCHANGED <<adapterVars, bindVars, startEpoch, pc, args, stream,
                   streamErr, stop_reason, clientCalls, backendRaised,
                   raised, pulls>>

\* Mutation of OnContentDelta: the callback is the one that was bound when
\* run() was called, whatever has been bound since.
OnContentDeltaCapturedAtRun(r) ==
    /\ HasEvent(r)
    /\ Branch(NextEvent(r)) = "contentBlockDelta"
    /\ LET text == NextEvent(r)["contentBlockDelta"].text
           fn == IF startEpoch[r] = 0 THEN "noop"
                 ELSE bindLog[startEpoch[r]].on_stream
       IN  /\ completions' = [completions EXCEPT ![r] = Append(@, text)]
           /\ cbLog' = Append(cbLog, [run |-> r, at |-> pos[r] + 1,
                                      cb |-> "on_stream", fn |-> fn,
                                      text |-> text])
           /\ yielded' = [yielded EXCEPT ![r] =
                              Append(@, OnStreamReturn(fn, text))]
    /\ pos' = [pos EXCEPT ![r] = @ + 1]
    /\ pc' = [pc EXCEPT ![r] = "suspended"]
    /\ UNCHANGED <<adapterVars, bindVars, startEpoch, args, stream,
                   streamErr, stop_reason, clientCalls, backendRaised,
                   raised, pulls>>

OnContentDelta(r) ==
    /\ HasEvent(r)
    /\ Branch(NextEvent(r)) = "contentBlockDelta"
    /\ LET text == NextEvent(r)["contentBlockDelta"].text
       IN  /\ completions' = [completions EXCEPT ![r] = Append(@, text)]
           /\ cbLog' = Append(cbLog, [run |-> r, at |-> pos[r] + 1,
                                      cb |-> "on_stream", fn |-> on_stream,
                                      text |-> text])
           /\ yielded' = [yielded EXCEPT ![r] =
                              Append(@, OnStreamReturn(on_stream, text))]
    /\ pos' = [pos EXCEPT ![r] = @ + 1]
    /\ pc' = [pc EXCEPT ![r] = "suspended"]
    /\ UNCHANGED <<adapterVars, bindVars, startEpoch, args, stream, streamErr, stop_reason,
                   clientCalls, backendRaised, raised, pulls>>

\* Mutation of OnMessageStop: the stop event already completes the run, it
\* builds a summary with no usage, calls on_stop and yields.
OnMessageStopCompletes(r) ==
    /\ HasEvent(r)
    /\ Branch(NextEvent(r)) = "messageStop"
    /\ stop_reason' = [stop_reason EXCEPT ![r] =
                           NextEvent(r)["messageStop"].stopReason]
    /\ LET summary == [full_token |-> FullToken(completions[r]),
                       stop_reason |-> NextEvent(r)["messageStop"].stopReason,
                       input_token_count |-> 0, output_token_count |-> 0,
                       price |-> 0]
       IN  /\ cbLog' = Append(cbLog, [run |-> r, at |-> pos[r] + 1,
                                      cb |-> "on_stop", fn |-> on_stop,
                                      summary |-> summary])
           /\ yielded' = [yielded EXCEPT ![r] =
                              Append(@, OnStopReturn(on_stop, summary))]
    /\ pos' = [pos EXCEPT ![r] = @ + 1]
    /\ pc' = [pc EXCEPT ![r] = "suspended"]
    /\ UNCHANGED <<adapterVars, bindVars, startEpoch, args, stream, streamErr, completions,
                   clientCalls, backendRaised, raised, pulls>>

\* Mutation of OnMessageStop: the stop event also starts a fresh
\* accumulator.
OnMessageStopResets(r) ==
    /\ HasEvent(r)
    /\ Branch(NextEvent(r)) = "messageStop"
    /\ stop_reason' = [stop_reason EXCEPT ![r] =
                           NextEvent(r)["messageStop"].stopReason]
    /\ completions' = [completions EXCEPT ![r] = <<>>]
    /\ pos' = [pos EXCEPT ![r] = @ + 1]
    /\ UNCHANGED <<adapterVars, bindVars, startEpoch, pc, args, stream, streamErr,
                   clientCalls, backendRaised, cbLog, yielded, raised, pulls>>

\* elif "messageStop" in event: record the stop reason.
\* Mutation of OnMessageStop: only the first stop reason of a run is kept.
OnMessageStopKeepsFirst(r) ==
    /\ HasEvent(r)
    /\ Branch(NextEvent(r)) = "messageStop"
    /\ stop_reason' = [stop_reason EXCEPT ![r] =
                           IF @ = "" THEN NextEvent(r)["messageStop"].stopReason
                           ELSE @]
    /\ pos' = [pos EXCEPT ![r] = @ + 1]
    /\ UNCHANGED <<adapterVars, bindVars, startEpoch, pc, args, stream,
                   streamErr, completions, clientCalls, backendRaised, cbLog,
                   yielded, raised, pulls>>

OnMessageStop(r) ==
    /\ HasEvent(r)
    /\ Branch(NextEvent(r)) = "messageStop"
    /\ stop_reason' = [stop_reason EXCEPT ![r] =
                           NextEvent(r)["messageStop"].stopReason]
    /\ pos' = [pos EXCEPT ![r] = @ + 1]
    /\ UNCHANGED <<adapterVars, bindVars, startEpoch, pc, args, stream, streamErr, completions,
                   clientCalls, backendRaised, cbLog, yielded, raised, pulls>>

\* Mutation of OnMetadata: on_stop is called but its result is not
\* yielded; the loop goes on.
OnMetadataYieldsNothing(r) ==
    /\ HasEvent(r)
    /\ Branch(NextEvent(r)) = "metadata"
    /\ LET summary == OnStopInput(model, completions[r], stop_reason[r],
                                  NextEvent(r))
       IN  cbLog' = Append(cbLog, [run |-> r, at |-> pos[r] + 1,
                                   cb |-> "on_stop", fn |-> on_stop,
                                   summary |-> summary])
    /\ pos' = [pos EXCEPT ![r] = @ + 1]
    /\ UNCHANGED <<adapterVars, bindVars, startEpoch, pc, args, stream,
                   streamErr, completions, stop_reason, clientCalls,
                   backendRaised, yielded, raised, pulls>>

\* Mutation of OnMetadata: the price is looked up under the request's
\* model_id instead of self.model.
OnMetadataPricesRequestModel(r) ==
    /\ HasEvent(r)
    /\ Branch(NextEvent(r)) = "metadata"
    /\ LET summary == OnStopInput(args[r]["model_id"][1], completions[r],
                                  stop_reason[r], NextEvent(r))
       IN  /\ cbLog' = Append(cbLog, [run |-> r, at |-> pos[r] + 1,
                                      cb |-> "on_stop", fn |-> on_stop,
                                      summary |-> summary])
           /\ yielded' = [yielded EXCEPT ![r] =
                              Append(@, OnStopReturn(on_stop, summary))]
    /\ pos' = [pos EXCEPT ![r] = @ + 1]
    /\ pc' = [pc EXCEPT ![r] = "suspended"]
    /\ UNCHANGED <<adapterVars, bindVars, startEpoch, args, stream, streamErr, completions,
                   stop_reason, clientCalls, backendRaised, raised, pulls>>

\* elif "metadata" in event: price, summary, on_stop(summary), yield.
OnMetadata(r) ==
    /\ HasEvent(r)
    /\ Branch(NextEvent(r)) = "metadata"
    /\ LET summary == OnStopInput(model, completions[r], stop_reason[r],
                                  NextEvent(r))
       IN  /\ cbLog' = Append(cbLog, [run |-> r, at |-> pos[r] + 1,
                                      cb |-> "on_stop", fn |-> on_stop,
                                      summary |-> summary])
           /\ yielded' = [yielded EXCEPT ![r] =
                              Append(@, OnStopReturn(on_stop, summary))]
    /\ pos' = [pos EXCEPT ![r] = @ + 1]
    /\ pc' = [pc EXCEPT ![r] = "suspended"]
    /\ UNCHANGED <<adapterVars, bindVars, startEpoch, args, stream, streamErr, completions,
                   stop_reason, clientCalls, backendRaised, raised, pulls>>

\* Mutation of SkipEvent: an unrecognised event is relayed to on_stream
\* as an empty fragment.
SkipEventRelays(r) ==
    /\ HasEvent(r)
    /\ Branch(NextEvent(r)) = "none"
    /\ cbLog' = Append(cbLog, [run |-> r, at |-> pos[r] + 1,
                               cb |-> "on_stream", fn |-> on_stream,
                               text |-> <<>>])
    /\ yielded' = [yielded EXCEPT ![r] = Append(@, OnStreamReturn(on_stream, <<>>))]
    /\ pos' = [pos EXCEPT ![r] = @ + 1]
    /\ pc' = [pc EXCEPT ![r] = "suspended"]
    /\ UNCHANGED <<adapterVars, bindVars, startEpoch, args, stream, streamErr, completions,
                   stop_reason, clientCalls, backendRaised, raised, pulls>>

\* No branch matches: the loop goes on to the next event.
SkipEvent(r) ==
    /\ HasEvent(r)
    /\ Branch(NextEvent(r)) = "none"
    /\ pos' = [pos EXCEPT ![r] = @ + 1]
    /\ UNCHANGED <<adapterVars, bindVars, startEpoch, pc, args, stream, streamErr, completions,
                   stop_reason, clientCalls, backendRaised, cbLog, yielded,
                   raised, pulls>>

\* Mutation of StreamEnd: exhaustion of the stream surfaces as an error.
StreamEndRaises(r) ==
    /\ pc[r] = "loop"
    /\ pos[r] = Len(stream[r])
    /\ streamErr[r] = NoError
    /\ raised' = [raised EXCEPT ![r] = "StopIteration"]
    /\ pc' = [pc EXCEPT ![r] = "raised"]
    /\ UNCHANGED <<adapterVars, bindVars, startEpoch, args, localVars, clientCalls, backendRaised,
                   cbLog, yielded, pulls>>

\* The stream is exhausted: the loop and the generator end (StopIteration).
StreamEnd(r) ==
    /\ pc[r] = "loop"
    /\ pos[r] = Len(stream[r])
    /\ streamErr[r] = NoError
    /\ pc' = [pc EXCEPT ![r] = "done"]
    /\ UNCHANGED <<adapterVars, bindVars, startEpoch, args, localVars, clientCalls, backendRaised,
                   cbLog, yielded, raised, pulls>>

\* The stream raises instead of delivering its next event: nothing catches it.
\* Mutation of StreamRaises: the failure is treated as the end of the reply
\* and on_stop is called with what has accumulated before re-raising.
StreamRaisesFinalises(r) ==
    /\ pc[r] = "loop"
    /\ pos[r] = Len(stream[r])
    /\ streamErr[r] # NoError
    /\ cbLog' = Append(cbLog, [run |-> r, at |-> pos[r] + 1,
                               cb |-> "on_stop", fn |-> on_stop,
                               summary |-> [full_token |-> FullToken(completions[r]),
                                            stop_reason |-> stop_reason[r]]])
    /\ backendRaised' = [backendRaised EXCEPT ![r] = streamErr[r]]
    /\ raised' = [raised EXCEPT ![r] = streamErr[r]]
    /\ pc' = [pc EXCEPT ![r] = "raised"]
    /\ UNCHANGED <<adapterVars, bindVars, startEpoch, args, localVars,
                   clientCalls, yielded, pulls>>

StreamRaises(r) ==
    /\ pc[r] = "loop"
    /\ pos[r] = Len(stream[r])
    /\ streamErr[r] # NoError
    /\ backendRaised' = [backendRaised EXCEPT ![r] = streamErr[r]]
    /\ raised' = [raised EXCEPT ![r] = streamErr[r]]
    /\ pc' = [pc EXCEPT ![r] = "raised"]
    /\ UNCHANGED <<adapterVars, bindVars, startEpoch, args, localVars, clientCalls, cbLog, yielded,
                   pulls>>

\* A step of the generator's body, between a pull and the next yield.
Body(r) ==
    \/ CallFails(r)
    \/ CallReturns(r)
    \/ OnContentDelta(r)
    \/ OnMessageStop(r)
    \/ OnMetadata(r)
    \/ SkipEvent(r)
    \/ StreamEnd(r)
    \/ StreamRaises(r)

\* What the caller does (run, next) and what the generator does in between.
Step(r) ==
    \/ Run(r)
    \/ Pull(r)
    \/ Body(r)

Next == \E r \in SingleRun : Step(r)

Spec == Init /\ [][Next]_vars

\* The caller keeps pulling a generator it holds, and the body, once
\* resumed, runs on to its next yield or to its end.
FairSpec ==
    Spec /\ \A r \in SingleRun : WF_vars(Pull(r)) /\ WF_vars(Body(r))

(* ------------------------- factory and bind --------------------------- *)

\* ConverseApiStreamHandler.from_model(m): both callbacks are lambdas that
\* return None.
from_model(m) == [model |-> m, on_stream |-> "noop", on_stop |-> "noop"]

\* An adapter built by the factory; no run() made yet.
InitFactory ==
    /\ \E m \in Models :
           /\ model = from_model(m).model
           /\ on_stream = from_model(m).on_stream
           /\ on_stop = from_model(m).on_stop
    /\ NoCallYet

\* Mutation of bind: only on_stream is replaced.
bindKeepsOnStop ==
    /\ \A q \in Runs : ~Executing(q)
    /\ Len(bindLog) < MaxBinds
    /\ \E p \in BindPairs :
           /\ on_stream' = p.on_stream
           /\ bindLog' = Append(bindLog, p)
    /\ bindReturn' = "self"
    /\ UNCHANGED <<model, on_stop, pc, args, localVars, clientCalls,
                   backendRaised, cbLog, yielded, raised, pulls, startEpoch>>

\* handler.bind(on_stream, on_stop), called by the caller between pulls:
\* both callbacks are replaced and self is returned.
bind ==
    /\ \A q \in Runs : ~Executing(q)
    /\ Len(bindLog) < MaxBinds
    /\ \E p \in BindPairs :
           /\ on_stream' = p.on_stream
           /\ on_stop' = p.on_stop
           /\ bindLog' = Append(bindLog, p)
    /\ bindReturn' = "self"
    /\ UNCHANGED <<model, pc, args, localVars, clientCalls, backendRaised,
                   cbLog, yielded, raised, pulls, startEpoch>>

\* The body of the generator, the backend answering with a sample stream.
SampleBody(r) ==
    \/ CallFails(r)
    \/ CallReturnsFrom(r, SampleStreams)
    \/ OnContentDelta(r)
    \/ OnMessageStop(r)
    \/ OnMetadata(r)
    \/ SkipEvent(r)
    \/ StreamEnd(r)
    \/ StreamRaises(r)

\* One run on a factory-built adapter that the caller may rebind at any
\* time between pulls.
NextBind ==
    \/ bind
    \/ \E r \in SingleRun : Run(r) \/ Pull(r) \/ SampleBody(r)

SpecBind == InitFactory /\ [][NextBind]_vars

(* ------------------------------ two runs ------------------------------ *)

\* Two run() calls on the one adapter; the caller pulls the two generators
\* in any order, one pull at a time.
NextTwo == \E r \in Runs : Run(r) \/ Pull(r) \/ SampleBody(r)

SpecTwo == Init /\ [][NextTwo]_vars

(* ---------------------- observations of a run ------------------------- *)

\* Events the for loop of run r has taken so far.
Handled(r) == SubSeq(stream[r], 1, pos[r])

CarriesDelta(e) == "contentBlockDelta" \in DOMAIN e
CarriesMetadata(e) == "metadata" \in DOMAIN e

\* Events of the tagged union: exactly one of the three keys.
IsContentDelta(e) == DOMAIN e = {"contentBlockDelta"}
IsMessageStop(e) == DOMAIN e = {"messageStop"}
IsMetadata(e) == DOMAIN e = {"metadata"}

\* Number of positions of the sequence es whose event satisfies P.
Count(es, P(_)) == Cardinality({ i \in 1..Len(es) : P(es[i]) })

\* Texts of the events of es that carry a content delta, in order.
RECURSIVE DeltaTexts(_)
DeltaTexts(es) ==
    IF es = <<>> THEN <<>>
    ELSE LET front == SubSeq(es, 1, Len(es) - 1)
             last == es[Len(es)]
         IN  IF CarriesDelta(last)
             THEN Append(DeltaTexts(front), last["contentBlockDelta"].text)
             ELSE DeltaTexts(front)

\* t1 + ... + tn, built from the last fragment backwards.
RECURSIVE Concat(_)
Concat(ts) ==
    IF ts = <<>> THEN <<>>
    ELSE Concat(SubSeq(ts, 1, Len(ts) - 1)) \o ts[Len(ts)]

\* x is s with its trailing whitespace removed and nothing else changed.
IsRightTrimOf(x, s) ==
    \E n \in 0..Len(s) :
        /\ x = SubSeq(s, 1, n)
        /\ \A i \in (n + 1)..Len(s) : s[i] \in Whitespace
        /\ n > 0 => s[n] \notin Whitespace

\* Callback invocations of run r, by callback.
OnStreamCalls(r) == SelectSeq(cbLog, LAMBDA c : c.run = r /\ c.cb = "on_stream")
OnStopCalls(r) == SelectSeq(cbLog, LAMBDA c : c.run = r /\ c.cb = "on_stop")
CallbackCalls(r) == SelectSeq(cbLog, LAMBDA c : c.run = r)
ClientCallsOf(r) == SelectSeq(clientCalls, LAMBDA c : c.run = r)

(* ------------------------------- claims ------------------------------- *)

\* C1: every summary handed to on_stop has full_token equal to the
\* concatenation, in arrival order, of the texts of the content deltas that
\* arrived before its metadata event, with the trailing whitespace removed
\* and the leading and interior whitespace kept.
C1_FullTokenIsRightTrimmedConcat ==
    \A r \in Runs :
        \A i \in 1..Len(OnStopCalls(r)) :
            LET c == OnStopCalls(r)[i]
                before == SubSeq(stream[r], 1, c.at - 1)
            IN  IsRightTrimOf(c.summary.full_token, Concat(DeltaTexts(before)))

\* A summary built from " t\n", " t\n": the interior newline and the leading
\* blank are kept, the trailing newline is gone.
C1_Witness ==
    \E i \in 1..Len(OnStopCalls(1)) :
        /\ OnStopCalls(1)[i].summary.full_token = <<" ", "t", "\n", " ", "t">>
        /\ Len(OnStreamCalls(1)) = 2


\* C2 as stated: on_stop is invoked at most once per run, and only if an
\* event carrying metadata has been processed in that run.
C2_AtMostOnceAsStated ==
    \A r \in Runs :
        /\ Len(OnStopCalls(r)) <= 1
        /\ Len(OnStopCalls(r)) >= 1 => Count(Handled(r), CarriesMetadata) >= 1

\* C2 amended: on_stop is invoked once for every Metadata event processed
\* and never more often than events carrying metadata were processed: at
\* most once per run exactly when the stream carries at most one such event,
\* and only if one has occurred.
C2_OncePerMetadataEvent ==
    \A r \in Runs :
        /\ Count(Handled(r), IsMetadata) <= Len(OnStopCalls(r))
        /\ Len(OnStopCalls(r)) <= Count(Handled(r), CarriesMetadata)

\* A finished run whose stream held two Metadata events: on_stop ran twice.
C2_Witness ==
    /\ pc[1] = "done"
    /\ Count(stream[1], IsMetadata) = 2
    /\ Len(OnStopCalls(1)) = 2

\* C3 as stated: once on_stop has been invoked in a run, no step of that run
\* invokes a callback or yields an element again.
C3_MetadataTerminalAsStated ==
    [][\A r \in Runs :
          Len(OnStopCalls(r)) >= 1 =>
              /\ CallbackCalls(r)' = CallbackCalls(r)
              /\ yielded'[r] = yielded[r]]_vars

\* Event index of the first on_stop invocation of run r.
FirstStopAt(r) == OnStopCalls(r)[1].at

\* Callback invocations of run r made for events after index k.
CallsAfter(r, k) == SelectSeq(cbLog, LAMBDA c : c.run = r /\ c.at > k)

CarriesDeltaOrMetadata(e) == CarriesDelta(e) \/ CarriesMetadata(e)
IsDeltaOrMetadata(e) == IsContentDelta(e) \/ IsMetadata(e)

\* C3 amended: the adapter keeps processing events after a Metadata event.
\* After the first on_stop the run yields exactly one element per callback
\* invocation, one for every later ContentDelta or Metadata event and none
\* for events that carry neither key; so the summary is the last element
\* only if the backend sends no ContentDelta or Metadata event after it.
C3_ContinuesAfterMetadata ==
    \A r \in Runs :
        Len(OnStopCalls(r)) >= 1 =>
            LET k == FirstStopAt(r)
                later == SubSeq(stream[r], k + 1, pos[r])
                n == Len(CallsAfter(r, k))
            IN  /\ Count(later, IsDeltaOrMetadata) <= n
                /\ n <= Count(later, CarriesDeltaOrMetadata)
                /\ Len(yielded[r]) = Len(CallsAfter(r, 0))

\* A finished run in which a ContentDelta followed the Metadata event and
\* was relayed to on_stream after the summary.
C3_Witness ==
    /\ pc[1] = "done"
    /\ Len(OnStopCalls(1)) = 1
    /\ FirstStopAt(1) = 1
    /\ Len(stream[1]) = 3
    /\ IsMessageStop(stream[1][2])
    /\ IsContentDelta(stream[1][3])
    /\ Len(CallsAfter(1, 1)) = 1

\* Texts on_stream received in run r, in invocation order.
OnStreamTexts(r) == [i \in 1..Len(OnStreamCalls(r)) |-> OnStreamCalls(r)[i].text]

\* C4: in a run consumed to its end, on_stream was invoked exactly once per
\* event carrying a content delta, in arrival order, each time with that
\* event's raw text.
C4_OnStreamOncePerDelta ==
    \A r \in Runs :
        pc[r] = "done" =>
            /\ pos[r] = Len(stream[r])
            /\ OnStreamTexts(r) = DeltaTexts(stream[r])
            /\ \A i \in 1..Len(OnStreamCalls(r)) :
                   OnStreamCalls(r)[i].text =
                       stream[r][OnStreamCalls(r)[i].at]["contentBlockDelta"].text

\* A run consumed to its end that relayed " t\n" and then " ", untrimmed.
C4_Witness ==
    /\ pc[1] = "done"
    /\ OnStreamTexts(1) = << <<" ", "t", "\n">>, <<" ">> >>

\* C5: when initiating the call raised an exception, the generator raised
\* that same exception, yielded nothing, made exactly one call attempt, and
\* invoked neither callback.
C5_InitFailurePropagates ==
    \A r \in Runs :
        backendRaised[r] \in InitErrors =>
            /\ pc[r] = "raised"
            /\ raised[r] = backendRaised[r]
            /\ yielded[r] = <<>>
            /\ Len(ClientCallsOf(r)) = 1
            /\ CallbackCalls(r) = <<>>

\* The backend refused the call and the caller got that exception.
C5_Witness ==
    /\ backendRaised[1] = "AccessDeniedException"
    /\ raised[1] = "AccessDeniedException"
    /\ pulls[1] = 1


\* C6 as stated: in every state after run() has been invoked, exactly one
\* streaming call has been opened for that run.
C6_ExactlyOneCallAsStated ==
    \A r \in Runs : pc[r] # "idle" => Len(ClientCallsOf(r)) = 1

\* C6 amended: run() only creates a generator and opens no call; the first
\* pull opens the one call; from then on the run has made exactly one
\* call, never a second one.
C6_OneCallFromFirstPull ==
    \A r \in Runs :
        /\ Len(ClientCallsOf(r)) <= 1
        /\ pulls[r] = 0 => Len(ClientCallsOf(r)) = 0
        /\ pc[r] \in {"loop", "suspended", "done", "raised"} =>
               Len(ClientCallsOf(r)) = 1

\* The run has been pulled several times and is finished: still one call.
C6_Witness ==
    /\ pc[1] = "done"
    /\ pulls[1] = 3
    /\ Len(ClientCallsOf(1)) = 1

\* C7: the call carries guardrailConfig exactly when the request does, with
\* the request's value; without it the key is absent from the call; the five
\* other fields always carry the request's values, and nothing else is sent.
C7_GuardrailPassedIffPresent ==
    \A i \in 1..Len(clientCalls) :
        LET k == clientCalls[i].kwargs
            a == args[clientCalls[i].run]
        IN  /\ ("guardrailConfig" \in DOMAIN k) <=> ("guardrailConfig" \in DOMAIN a)
            /\ "guardrailConfig" \in DOMAIN a =>
                   k["guardrailConfig"] = a["guardrailConfig"]
            /\ DOMAIN k \ {"guardrailConfig"} =
                   {"modelId", "messages", "inferenceConfig", "system",
                    "additionalModelRequestFields"}
            /\ k["modelId"] = a["model_id"]
            /\ k["messages"] = a["messages"]
            /\ k["inferenceConfig"] = a["inference_config"]
            /\ k["system"] = a["system"]
            /\ k["additionalModelRequestFields"] =
                   a["additional_model_request_fields"]

\* A call made for a request without guardrailConfig: five keys were sent.
C7_Witness ==
    /\ Len(clientCalls) = 1
    /\ "guardrailConfig" \notin DOMAIN args[1]
    /\ Cardinality(DOMAIN clientCalls[1].kwargs) = 5

\* Zero or more ContentDelta events, then one MessageStop, then one Metadata.
WellFormed(s) ==
    /\ Len(s) >= 2
    /\ IsMetadata(s[Len(s)])
    /\ IsMessageStop(s[Len(s) - 1])
    /\ \A i \in 1..(Len(s) - 2) : IsContentDelta(s[i])

\* C8: for a well-formed stream consumed to its end, on_stop was invoked
\* exactly once, after every on_stream invocation of the run, with the
\* MessageStop's stop reason and the Metadata event's two token counts.
C8_WellFormedStreamSummary ==
    \A r \in Runs :
        (pc[r] = "done" /\ WellFormed(stream[r])) =>
            LET n == Len(stream[r])
                calls == CallbackCalls(r)
            IN  /\ Len(OnStopCalls(r)) = 1
                /\ Len(calls) = n - 1
                /\ \A i \in 1..(n - 2) : calls[i].cb = "on_stream"
                /\ calls[n - 1].cb = "on_stop"
                /\ calls[n - 1].summary.stop_reason =
                       stream[r][n - 1]["messageStop"].stopReason
                /\ calls[n - 1].summary.input_token_count =
                       stream[r][n]["metadata"].usage.inputTokens
                /\ calls[n - 1].summary.output_token_count =
                       stream[r][n]["metadata"].usage.outputTokens

\* The stream ContentDelta, MessageStop("end_turn"), Metadata(5, 2) was
\* consumed to its end.
C8_Witness ==
    /\ pc[1] = "done"
    /\ WellFormed(stream[1])
    /\ Len(stream[1]) = 3
    /\ stream[1][2] = MessageStop("end_turn")
    /\ stream[1][3] = Metadata([inputTokens |-> 5, outputTokens |-> 2])
    /\ Len(OnStopCalls(1)) = 1

\* C9: the price of every summary is calculate_price applied to the
\* adapter's model and the triggering event's inputTokens and outputTokens,
\* unchanged.
C9_PriceIsPriceFunction ==
    \A r \in Runs :
        \A i \in 1..Len(OnStopCalls(r)) :
            LET c == OnStopCalls(r)[i]
                usage == stream[r][c.at]["metadata"].usage
            IN  c.summary.price =
                    calculate_price(model, usage.inputTokens, usage.outputTokens)

\* A summary priced for the adapter's model claude-v3-opus in a run whose
\* request names the other model and which relayed fragments before.
C9_Witness ==
    /\ model = "claude-v3-opus"
    /\ pc[1] # "idle"
    /\ args[1]["model_id"] = <<"anthropic.haiku">>
    /\ Len(OnStreamCalls(1)) >= 1
    /\ \E i \in 1..Len(OnStopCalls(1)) :
           /\ OnStopCalls(1)[i].summary.input_token_count = 5
           /\ OnStopCalls(1)[i].summary.price =
                  calculate_price("claude-v3-opus", 5, 2)

\* The response's stream of run r closes without raising.
StreamCloses(r) == pc[r] \in {"loop", "suspended"} /\ streamErr[r] = NoError

\* C10: the yielded sequence is never longer than the event stream; when
\* the caller keeps pulling, a run whose stream closes ends normally; and a
\* run that ended on a stream without Metadata raised nothing, never
\* invoked on_stop and yielded one element per delta.
C10_FiniteStreamEndsNormally ==
    /\ \A r \in SingleRun : StreamCloses(r) ~> (pc[r] = "done")
    /\ [](\A r \in Runs : Len(yielded[r]) <= Len(stream[r]))
    /\ [](\A r \in Runs :
             (pc[r] = "done" /\ Count(stream[r], CarriesMetadata) = 0) =>
                 /\ raised[r] = NoError
                 /\ OnStopCalls(r) = <<>>
                 /\ Len(yielded[r]) = Count(stream[r], CarriesDelta))

\* A run over three ContentDelta events and nothing else has ended.
C10_Witness ==
    /\ pc[1] = "done"
    /\ Len(stream[1]) = 3
    /\ \A i \in 1..3 : IsContentDelta(stream[1][i])
    /\ raised[1] = NoError
    /\ OnStopCalls(1) = <<>>
    /\ Len(OnStreamCalls(1)) = 3


\* The for loop of run r takes its next event in this step.
TakesEvent(r) == HasEvent(r) /\ pos'[r] = pos[r] + 1

\* C11: the step that processes a MessageStop event records its stop reason
\* and nothing else: no callback is invoked, no element is yielded, the
\* generator does not suspend, and the accumulator and the bound callbacks
\* are unchanged.
C11_MessageStopOnlyRecords ==
    [][\A r \in Runs :
          (TakesEvent(r) /\ IsMessageStop(NextEvent(r))) =>
              /\ stop_reason'[r] = NextEvent(r)["messageStop"].stopReason
              /\ cbLog' = cbLog
              /\ yielded' = yielded
              /\ completions' = completions
              /\ on_stream' = on_stream
              /\ on_stop' = on_stop
              /\ pc'[r] = "loop"]_vars

\* A MessageStop was processed after one relayed fragment: the reason is
\* recorded, the fragment is still accumulated, one callback has run.
C11_Witness ==
    /\ pc[1] = "loop"
    /\ pos[1] = 2
    /\ IsContentDelta(stream[1][1])
    /\ stream[1][2] = MessageStop("end_turn")
    /\ stop_reason[1] = "end_turn"
    /\ Len(completions[1]) = 1
    /\ Len(cbLog) = 1
    /\ Len(yielded[1]) = 1


\* The callback of the kind of invocation c that bind() call number j bound.
BoundBy(j, c) ==
    IF c.cb = "on_stream" THEN bindLog[j].on_stream ELSE bindLog[j].on_stop

\* None, as yielded when a no-op callback ran.
NoneResult == [by |-> "noop"]

\* C12: (a) until bind() is called, a factory-built adapter has the no-op
\* callbacks and every element a run yields is None; (b) a bind() call
\* replaces both callbacks by its two arguments in one step, returns self
\* and leaves the model unchanged, and nothing else changes the callbacks
\* or the model; (c) a run started after a bind() call invokes only
\* callbacks bound by that call or a later one.
C12_FactoryAndRebind ==
    /\ [](bindLog = <<>> =>
             /\ on_stream = "noop" /\ on_stop = "noop"
             /\ \A r \in Runs : \A i \in 1..Len(yielded[r]) :
                    yielded[r][i] = NoneResult)
    /\ [][/\ model' = model
          /\ bindLog' # bindLog =>
                 /\ Len(bindLog') = Len(bindLog) + 1
                 /\ on_stream' = bindLog'[Len(bindLog')].on_stream
                 /\ on_stop' = bindLog'[Len(bindLog')].on_stop
                 /\ bindReturn' = "self"
          /\ bindLog' = bindLog =>
                 on_stream' = on_stream /\ on_stop' = on_stop]_vars
    /\ [](\A r \in Runs :
             startEpoch[r] >= 1 =>
                 \A i \in 1..Len(CallbackCalls(r)) :
                     \E j \in startEpoch[r]..Len(bindLog) :
                         CallbackCalls(r)[i].fn = BoundBy(j, CallbackCalls(r)[i]))

\* The factory-built adapter was bound to the A callbacks and then to the B
\* callbacks; a run started afterwards relayed a fragment and a summary, both
\* to the B callbacks.
C12_Witness ==
    /\ Len(bindLog) = 2
    /\ bindLog[1].on_stream = OnStreamA
    /\ bindLog[2].on_stream = OnStreamB
    /\ startEpoch[1] = 2
    /\ pc[1] = "done"
    /\ Len(CallbackCalls(1)) = 2
    /\ CallbackCalls(1)[1].fn = OnStreamB
    /\ CallbackCalls(1)[2].fn = OnStopB
    /\ yielded[1][1] = OnStreamReturn(OnStreamB, <<" ", "t", "\n">>)


\* The body of run r has initialised its locals.
Started(r) == pc[r] \in {"loop", "suspended", "done"} \/ (pc[r] = "raised" /\ backendRaised[r] \notin InitErrors)

\* C13: with two runs on one adapter, pulled in any order, each run's
\* accumulator holds exactly the fragments of its own stream taken so far,
\* and each summary's full text is the right-trimmed concatenation of the
\* fragments of that run's own stream that preceded its Metadata event.
C13_AccumulatorIsPerRun ==
    \A r \in Runs :
        /\ Started(r) => completions[r] = DeltaTexts(Handled(r))
        /\ \A i \in 1..Len(OnStopCalls(r)) :
               LET c == OnStopCalls(r)[i]
                   own == DeltaTexts(SubSeq(stream[r], 1, c.at - 1))
               IN  /\ IsRightTrimOf(c.summary.full_token, Concat(own))
                   /\ c.summary.full_token = Rstrip(Concat(own))

\* The pulls of two runs alternated (fragment of run 1, fragment of run 2,
\* summary of run 1, second fragment of run 2, summary of run 2), and each
\* summary has the text of its own stream: " t" and "  t".
C13_Witness ==
    /\ Len(cbLog) = 5
    /\ cbLog[1].run = 1 /\ cbLog[1].cb = "on_stream"
    /\ cbLog[2].run = 2 /\ cbLog[2].cb = "on_stream"
    /\ cbLog[3].run = 1 /\ cbLog[3].cb = "on_stop"
    /\ cbLog[3].summary.full_token = <<" ", "t">>
    /\ cbLog[4].run = 2 /\ cbLog[4].cb = "on_stream"
    /\ cbLog[5].run = 2 /\ cbLog[5].cb = "on_stop"
    /\ cbLog[5].summary.full_token = <<" ", " ", "t">>


\* What the callback invocation c returned to the generator.
ReturnOf(c) ==
    IF c.cb = "on_stream" THEN OnStreamReturn(c.fn, c.text)
    ELSE OnStopReturn(c.fn, c.summary)

\* The keys the if/elif chain looks for.
VariantKeys == {"contentBlockDelta", "messageStop", "metadata"}

\* Every event of s carries at most one of the three keys.
SingleKeyed(s) ==
    \A i \in 1..Len(s) : Cardinality(DOMAIN s[i] \cap VariantKeys) <= 1

\* C14: the elements a run has yielded are the callback return values, one
\* per invocation and in invocation order, and the invocations follow the
\* arrival order of their events; for a stream consumed to its end the
\* number of elements is the number of ContentDelta events plus the number
\* of Metadata events (for events carrying several keys: at least the
\* number of pure ones and at most the number carrying either key).
C14_YieldsCallbackReturns ==
    \A r \in Runs :
        LET calls == CallbackCalls(r)
        IN  /\ Len(yielded[r]) = Len(calls)
            /\ \A i \in 1..Len(calls) : yielded[r][i] = ReturnOf(calls[i])
            /\ \A i \in 1..(Len(calls) - 1) : calls[i].at < calls[i + 1].at
            /\ pc[r] = "done" =>
                   /\ Count(stream[r], IsDeltaOrMetadata) <= Len(yielded[r])
                   /\ Len(yielded[r]) <= Count(stream[r], CarriesDeltaOrMetadata)
                   /\ SingleKeyed(stream[r]) =>
                          Len(yielded[r]) = Count(stream[r], IsContentDelta)
                                            + Count(stream[r], IsMetadata)

\* A run over ContentDelta, an unrecognised event and Metadata, consumed to
\* its end: two elements, on_stream's result and then on_stop's.
C14_Witness ==
    /\ pc[1] = "done"
    /\ Len(stream[1]) = 3
    /\ IsContentDelta(stream[1][1])
    /\ stream[1][2] = OtherEvent
    /\ IsMetadata(stream[1][3])
    /\ Len(yielded[1]) = 2
    /\ yielded[1][1] = OnStreamReturn(OnStreamA, stream[1][1]["contentBlockDelta"].text)
    /\ yielded[1][2].by = OnStopA


\* The events of run r consumed so far include one handled as Metadata.
MetadataReached(r) ==
    \E i \in 1..pos[r] : Branch(stream[r][i]) = "metadata"

\* C15: the adapter is pull-driven.  While no run is executing between a
\* pull and the next yield, nothing is consumed, called or yielded; a run
\* never has more callback invocations than pulls, a suspended run has had
\* exactly as many callback invocations as its caller has pulled and
\* received elements, and on_stop has been invoked only if the run has
\* consumed a Metadata event.
C15_PullDriven ==
    /\ [](\A r \in Runs :
            /\ Len(CallbackCalls(r)) = Len(yielded[r])
            /\ Len(yielded[r]) <= pulls[r]
            /\ pc[r] = "suspended" => Len(yielded[r]) = pulls[r]
            /\ pulls[r] = 0 => /\ pos[r] = 0
                               /\ ClientCallsOf(r) = <<>>
                               /\ CallbackCalls(r) = <<>>
            /\ OnStopCalls(r) # <<>> => MetadataReached(r))
    /\ [][(\A q \in Runs : ~Executing(q)) =>
              /\ pos' = pos
              /\ cbLog' = cbLog
              /\ clientCalls' = clientCalls
              /\ yielded' = yielded
              /\ completions' = completions]_vars

\* The caller has pulled twice and received two elements; the Metadata
\* event is still ahead and on_stop has not been invoked.
C15_Witness ==
    /\ pc[1] = "suspended"
    /\ pulls[1] = 2
    /\ Len(yielded[1]) = 2
    /\ Len(CallbackCalls(1)) = 2
    /\ Len(stream[1]) = 3
    /\ pos[1] = 2
    /\ IsMetadata(stream[1][3])
    /\ OnStopCalls(1) = <<>>


\* Run r ended because its event stream raised while delivering an event.
FailedMidStream(r) == pc[r] = "raised" /\ streamErr[r] # NoError

\* The callback invocations of run r triggered by its i-th event.
CallsAt(r, i) == SelectSeq(cbLog, LAMBDA c : c.run = r /\ c.at = i)

\* C16: when the event stream raises while delivering its k-th event, the
\* caller receives that very error; each of the k-1 events before it that
\* is handled as ContentDelta or Metadata has fired its callback exactly
\* once, no callback belongs to the failing or a later event, as many
\* elements were yielded as callbacks fired, and from then on the run
\* stays failed and neither calls nor yields anything more.  Callback
\* invocations once logged are never taken back.
C16_MidStreamErrorPropagates ==
    /\ [](\A r \in Runs : FailedMidStream(r) =>
            /\ raised[r] = streamErr[r]
            /\ raised[r] = backendRaised[r]
            /\ pos[r] = Len(stream[r])
            /\ \A i \in 1..Len(stream[r]) :
                   Len(CallsAt(r, i)) =
                       IF Branch(stream[r][i]) \in {"contentBlockDelta", "metadata"}
                       THEN 1 ELSE 0
            /\ \A i \in 1..Len(cbLog) :
                   cbLog[i].run = r => cbLog[i].at <= Len(stream[r])
            /\ Len(OnStopCalls(r)) =
                   Count(stream[r], LAMBDA e : Branch(e) = "metadata")
            /\ Len(yielded[r]) = Len(CallbackCalls(r)))
    /\ [][/\ Len(cbLog') >= Len(cbLog)
          /\ SubSeq(cbLog', 1, Len(cbLog)) = cbLog
          /\ \A r \in Runs : FailedMidStream(r) =>
                 /\ pc'[r] = "raised"
                 /\ raised'[r] = raised[r]
                 /\ yielded'[r] = yielded[r]
                 /\ CallbackCalls(r)' = CallbackCalls(r)]_vars

\* The stream failed while delivering its third event, after two
\* ContentDelta events whose on_stream calls are on record.
C16_Witness ==
    /\ FailedMidStream(1)
    /\ raised[1] = StreamError
    /\ Len(stream[1]) = 2
    /\ IsContentDelta(stream[1][1])
    /\ IsContentDelta(stream[1][2])
    /\ Len(OnStreamCalls(1)) = 2
    /\ OnStopCalls(1) = <<>>
    /\ Len(yielded[1]) = 2


\* Positions before n at which stream s has an event handled as MessageStop.
StopsBefore(s, n) == {j \in 1..(n - 1) : Branch(s[j]) = "messageStop"}

\* The stop reason in force when the n-th event of s is handled: that of
\* the latest MessageStop before it, the empty string if there is none.
StopReasonBefore(s, n) ==
    IF StopsBefore(s, n) = {} THEN ""
    ELSE LET last == CHOOSE j \in StopsBefore(s, n) :
                         \A k \in StopsBefore(s, n) : k <= j
         IN  s[last]["messageStop"].stopReason

\* C17: the stop_reason of every summary handed to on_stop is the stop
\* reason of the latest MessageStop event of the same run that came before
\* the triggering Metadata event, and the empty string when none came
\* before it; MessageStop events after the Metadata event play no part.
C17_StopReasonIsLatestBefore ==
    \A r \in Runs :
        \A i \in 1..Len(OnStopCalls(r)) :
            LET c == OnStopCalls(r)[i]
            IN  c.summary.stop_reason = StopReasonBefore(stream[r], c.at)

\* Two MessageStop events with different reasons precede the Metadata
\* event: the summary carries the second one.
C17_Witness ==
    /\ Len(stream[1]) = 3
    /\ stream[1][1] = MessageStop("end_turn")
    /\ stream[1][2] = MessageStop("max_tokens")
    /\ IsMetadata(stream[1][3])
    /\ Len(OnStopCalls(1)) = 1
    /\ OnStopCalls(1)[1].summary.stop_reason = "max_tokens"

\* Metadata arrives before the only MessageStop: the summary's stop reason
\* is the empty string.
C17_WitnessEmpty ==
    /\ Len(stream[1]) = 2
    /\ IsMetadata(stream[1][1])
    /\ IsMessageStop(stream[1][2])
    /\ pc[1] = "done"
    /\ Len(OnStopCalls(1)) = 1
    /\ OnStopCalls(1)[1].summary.stop_reason = ""


\* The callback of kind cb that the adapter holds in the current state.
BoundNow(cb) == IF cb = "on_stream" THEN on_stream ELSE on_stop

\* C18: callbacks are looked up when an event is handled.  Every callback
\* invocation goes to the callback the adapter holds at that moment, so
\* after a bind() between two pulls the rest of the run uses the new pair
\* while the invocations made earlier stay with the old one; a bind() step
\* leaves every run's position, accumulator and stop reason as they are,
\* and a summary built after it still covers the fragments and the stop
\* reason received before it.
C18_CallbacksResolvedPerEvent ==
    /\ [][/\ Len(cbLog') >= Len(cbLog)
          /\ \A i \in 1..Len(cbLog') :
                 IF i <= Len(cbLog) THEN cbLog'[i] = cbLog[i]
                 ELSE /\ cbLog'[i].fn = BoundNow(cbLog'[i].cb)
                      /\ on_stream' = on_stream
                      /\ on_stop' = on_stop
          /\ bindLog' # bindLog =>
                 /\ pos' = pos
                 /\ completions' = completions
                 /\ stop_reason' = stop_reason
                 /\ pc' = pc
                 /\ yielded' = yielded]_vars
    /\ [](\A r \in Runs :
            \A i \in 1..Len(OnStopCalls(r)) :
                LET c == OnStopCalls(r)[i]
                    seen == SubSeq(stream[r], 1, c.at - 1)
                IN  /\ c.summary.full_token = Rstrip(Concat(DeltaTexts(seen)))
                    /\ c.summary.stop_reason = StopReasonBefore(stream[r], c.at))

\* bind() was called while the run was suspended after its first element:
\* the first fragment went to the old on_stream, the second to the new one,
\* the summary went to the new on_stop and covers both fragments.
C18_Witness ==
    /\ pc[1] = "done"
    /\ startEpoch[1] = 1
    /\ Len(bindLog) = 2
    /\ Len(cbLog) = 3
    /\ cbLog[1].cb = "on_stream" /\ cbLog[1].fn = bindLog[1].on_stream
    /\ cbLog[2].cb = "on_stream" /\ cbLog[2].fn = bindLog[2].on_stream
    /\ cbLog[3].cb = "on_stop" /\ cbLog[3].fn = bindLog[2].on_stop
    /\ bindLog[1].on_stream # bindLog[2].on_stream
    /\ cbLog[3].summary.full_token = Rstrip(cbLog[1].text \o cbLog[2].text)
    /\ cbLog[3].summary.full_token # <<>>


CarriesStop(e) == "messageStop" \in DOMAIN e

\* The new entries a step appends to the callback log.
NewCalls == SubSeq(cbLog', Len(cbLog) + 1, Len(cbLog'))

\* C19: each event is handled as exactly one thing, decided by the first
\* key it carries in the order contentBlockDelta, messageStop, metadata.
\* An event with a content delta is relayed and accumulated and leaves the
\* stop reason alone whatever else it carries; otherwise one with
\* messageStop only sets the stop reason, even if it carries metadata;
\* otherwise one with metadata only triggers on_stop; an event with none of
\* the keys changes nothing but the position.  No event causes more than
\* one callback invocation.
C19_DispatchExclusiveOrdered ==
    [][\A r \in Runs : TakesEvent(r) =>
          LET e == NextEvent(r)
          IN  /\ Len(cbLog') >= Len(cbLog)
              /\ Len(NewCalls) <= 1
              /\ CarriesDelta(e) =>
                     /\ Len(NewCalls) = 1
                     /\ NewCalls[1].cb = "on_stream"
                     /\ completions'[r] =
                            Append(completions[r], e["contentBlockDelta"].text)
                     /\ stop_reason' = stop_reason
                     /\ Len(yielded'[r]) = Len(yielded[r]) + 1
              /\ (~CarriesDelta(e) /\ CarriesStop(e)) =>
                     /\ NewCalls = <<>>
                     /\ stop_reason'[r] = e["messageStop"].stopReason
                     /\ completions' = completions
                     /\ yielded' = yielded
              /\ (~CarriesDelta(e) /\ ~CarriesStop(e) /\ CarriesMetadata(e)) =>
                     /\ Len(NewCalls) = 1
                     /\ NewCalls[1].cb = "on_stop"
                     /\ completions' = completions
                     /\ stop_reason' = stop_reason
                     /\ Len(yielded'[r]) = Len(yielded[r]) + 1
              /\ (~CarriesDelta(e) /\ ~CarriesStop(e) /\ ~CarriesMetadata(e)) =>
                     /\ NewCalls = <<>>
                     /\ completions' = completions
                     /\ stop_reason' = stop_reason
                     /\ yielded' = yielded
                     /\ pc'[r] = "loop"]_vars

\* An event with all three keys, one with messageStop and metadata and one
\* with none were consumed: one on_stream call for the first, the second
\* only set the stop reason, the third did nothing; on_stop never ran.
C19_Witness ==
    /\ pc[1] = "done"
    /\ stream[1] = <<MixedEvent, StopWithUsage, OtherEvent>>
    /\ Len(cbLog) = 1
    /\ cbLog[1].cb = "on_stream"
    /\ completions[1] = <<MixedEvent["contentBlockDelta"].text>>
    /\ stop_reason[1] = StopWithUsage["messageStop"].stopReason
    /\ Len(yielded[1]) = 1

=============================================================================
